---- MODULE Spec2Model ----
(***************************************************************************)
(* Allocation & confirmation engine of telegram_promo_bot_postgres.py:     *)
(* the promocodes / distribution / weekly_users / settings tables, the     *)
(* allocation algorithm compute_allocation_ordered, the weekly             *)
(* confirmation flow, the scheduled weekly_distribution_job, the manual    *)
(* distribution cb_manual_confirm and the manual issuance /givepromo.      *)
(*                                                                         *)
(* All handlers are coroutines of one asyncio event loop sharing one       *)
(* database connection: a handler runs atomically from one await to the    *)
(* next, and every handler sees every other handler's writes.  An action   *)
(* of this module is one such atomic segment.                              *)
(***************************************************************************)
EXTENDS Integers, Sequences, FiniteSets, Bags, TLC

VARIABLES
    promocodes,     \* table promocodes, in ORDER BY added_at, id
    distribution,   \* table distribution (the ledger), a bag of rows
    weekly_users,   \* table weekly_users: week number -> user_id by position
    settings,       \* table settings: reserve, weekly_confirmed, last_distribution_date
    now,            \* the clock, counted in weeks (anchor Sunday 21:08 MSK)
    job,            \* frame of the running weekly_distribution_job coroutine
    manual,         \* frame of the running cb_manual_confirm coroutine
    assign,         \* callback_data of the assign_choose buttons sent so far
    reminder,       \* week keys of the scheduler's weekly_reminder_<week> jobs
    last            \* the handler segment that ran last, and how it ended

vars == <<promocodes, distribution, weekly_users, settings, now, job, manual,
          assign, reminder, last>>

---------------------------------------------------------------------------
(* Bounds of the model *)

MaxUses == 2        \* largest total_uses typed into /addpromo
MaxReserve == 1     \* /addpromo is not run once the reserve would pass this
MaxWeek == 2        \* the clock stops at this week

(* Program constants *)

RESERVE_DEFAULT == 0
TopSlots == 15
TopQuota == 3
RestQuota == 1
GiveQtyMax == 3

Users == {1, 2}                 \* tg_id of the approved users
NULL == 0                       \* weekly_users.user_id of an unbound position
CodeNames == {"A", "B"}         \* code texts an administrator types
UnknownCode == "Z"              \* a text that is never added as a code
Sources == {"normal", "manual", "reserve", "free"}

---------------------------------------------------------------------------
(* Helpers *)

Min(a, b) == IF a < b THEN a ELSE b
Max(a, b) == IF a > b THEN a ELSE b

Range(s) == {s[i] : i \in DOMAIN s}

RECURSIVE SeqSum(_)
SeqSum(s) == IF s = <<>> THEN 0 ELSE Head(s) + SeqSum(Tail(s))

\* get_week_start(): the ISO date of the anchor Sunday, an opaque key
WeekKey(n) == ToString(n)
get_week_start == WeekKey(now)

\* get_reserve(): int() of the text set_reserve() wrote with str(), the number itself
get_reserve == settings.reserve

\* the lookup finding no row
user_already_has_code_nocheck(dist, tg_id, code) == FALSE

\* SELECT 1 FROM distribution WHERE user_id = ? AND code = ?
user_already_has_code(dist, tg_id, code) ==
    \E e \in BagToSet(dist) : e.user_id = tg_id /\ e.code = code

---------------------------------------------------------------------------
(* compute_allocation_ordered *)

RECURSIVE total_available(_)
total_available(promos) ==
    IF promos = <<>> THEN 0
    ELSE Max(0, Head(promos).total_uses - Head(promos).used) + total_available(Tail(promos))

\* for i in range(min(15, n)): first 15 positions, up to 3 each
RECURSIVE quota_first(_, _, _, _)
quota_first(ordered, i, allocated, distributable) ==
    IF i > Min(TopSlots, Len(ordered))
    THEN [allocated |-> allocated, distributable |-> distributable]
    ELSE IF ordered[i] # NULL
         THEN LET give == Min(TopQuota, distributable)
              IN quota_first(ordered, i + 1, [allocated EXCEPT ![i] = @ + give],
                             distributable - give)
         ELSE quota_first(ordered, i + 1, allocated, distributable)

\* the second loop giving what the first gives
RECURSIVE quota_rest_as_first(_, _, _, _)
quota_rest_as_first(ordered, i, allocated, distributable) ==
    IF i > Len(ordered) \/ distributable <= 0
    THEN [allocated |-> allocated, distributable |-> distributable]
    ELSE IF ordered[i] # NULL
         THEN LET give == Min(TopQuota, distributable)
              IN quota_rest_as_first(ordered, i + 1, [allocated EXCEPT ![i] = @ + give],
                                     distributable - give)
         ELSE quota_rest_as_first(ordered, i + 1, allocated, distributable)

\* for i in range(15, n): one each until nothing is left
RECURSIVE quota_rest(_, _, _, _)
quota_rest(ordered, i, allocated, distributable) ==
    IF i > Len(ordered) \/ distributable <= 0
    THEN [allocated |-> allocated, distributable |-> distributable]
    ELSE IF ordered[i] # NULL
         THEN quota_rest(ordered, i + 1, [allocated EXCEPT ![i] = @ + RestQuota],
                         distributable - RestQuota)
         ELSE quota_rest(ordered, i + 1, allocated, distributable)

\* [i for i in range(lo-1, hi) if ordered[i]] (1-based here)
RECURSIVE occupied(_, _, _)
occupied(ordered, lo, hi) ==
    IF lo > hi THEN <<>>
    ELSE (IF ordered[lo] # NULL THEN <<lo>> ELSE <<>>) \o occupied(ordered, lo + 1, hi)

\* eligible without the `or [...]` fallback
spill_eligible_rest_only(ordered) == occupied(ordered, TopSlots + 1, Len(ordered))

\* eligible = [i for i in range(15, n) if ordered[i]] or [i for i in range(n) if ordered[i]]
spill_eligible(ordered) ==
    LET rest == occupied(ordered, TopSlots + 1, Len(ordered))
    IN IF rest # <<>> THEN rest ELSE occupied(ordered, 1, Len(ordered))

\* the spillover loop never entered
spill_nothing(eligible, idx, allocated, distributable) ==
    [allocated |-> allocated, distributable |-> distributable]

\* while distributable > 0 and eligible: round-robin, one unit at a time
RECURSIVE spill(_, _, _, _)
spill(eligible, idx, allocated, distributable) ==
    IF distributable > 0 /\ eligible # <<>>
    THEN LET i == eligible[(idx % Len(eligible)) + 1]
         IN spill(eligible, idx + 1, [allocated EXCEPT ![i] = @ + 1], distributable - 1)
    ELSE [allocated |-> allocated, distributable |-> distributable]

\* allocated[] after the two quota loops, and what is left of distributable
quota_pass(ordered, distributable) ==
    LET q1 == quota_first(ordered, 1, [i \in 1..Len(ordered) |-> 0], distributable)
    IN quota_rest(ordered, TopSlots + 1, q1.allocated, q1.distributable)

\* the quantity passes: allocated[] after quota and spillover
entitlements(ordered, distributable) ==
    LET q1 == quota_first(ordered, 1, [i \in 1..Len(ordered) |-> 0], distributable)
        q2 == quota_rest(ordered, TopSlots + 1, q1.allocated, q1.distributable)
    IN IF q2.distributable > 0
       THEN spill(spill_eligible(ordered), 0, q2.allocated, q2.distributable).allocated
       ELSE q2.allocated

\* promo_iter: the codes with remaining uses, each with its remaining count
RECURSIVE promo_iter_of(_)
promo_iter_of(promos) ==
    IF promos = <<>> THEN <<>>
    ELSE LET p == Head(promos)
         IN (IF p.total_uses - p.used > 0
             THEN <<[code |-> p.code, remaining |-> p.total_uses - p.used]>>
             ELSE <<>>) \o promo_iter_of(Tail(promos))

\* the search without the used_codes_for_user check
RECURSIVE find_code_repeating(_, _, _, _, _, _)
find_code_repeating(promo_iter, promo_idx, offset, tg_id, used_codes_for_user, dist) ==
    IF offset >= Len(promo_iter) THEN -1
    ELSE LET idx == (promo_idx + offset) % Len(promo_iter)
             cand == promo_iter[idx + 1]
         IN IF \/ cand.remaining <= 0
               \/ user_already_has_code(dist, tg_id, cand.code)
            THEN find_code_repeating(promo_iter, promo_idx, offset + 1, tg_id,
                                     used_codes_for_user, dist)
            ELSE idx

\* for offset in range(len(promo_iter)): the 0-based index picked, -1 if none
RECURSIVE find_code(_, _, _, _, _, _)
find_code(promo_iter, promo_idx, offset, tg_id, used_codes_for_user, dist) ==
    IF offset >= Len(promo_iter) THEN -1
    ELSE LET idx == (promo_idx + offset) % Len(promo_iter)
             cand == promo_iter[idx + 1]
         IN IF \/ cand.remaining <= 0
               \/ cand.code \in used_codes_for_user
               \/ user_already_has_code(dist, tg_id, cand.code)
            THEN find_code(promo_iter, promo_idx, offset + 1, tg_id, used_codes_for_user, dist)
            ELSE idx

\* for _ in range(cnt): pick a code per unit, stop at the first unit without one
RECURSIVE select_units(_, _, _, _, _, _)
select_units(cnt, promo_iter, promo_idx, codes_given, tg_id, dist) ==
    IF cnt <= 0
    THEN [promo_iter |-> promo_iter, promo_idx |-> promo_idx, codes_given |-> codes_given]
    ELSE LET idx == find_code(promo_iter, promo_idx, 0, tg_id, Range(codes_given), dist)
         IN IF idx < 0
            THEN [promo_iter |-> promo_iter, promo_idx |-> promo_idx,
                  codes_given |-> codes_given]
            ELSE select_units(cnt - 1,
                              [promo_iter EXCEPT ![idx + 1].remaining = @ - 1],
                              idx,
                              Append(codes_given, promo_iter[idx + 1].code),
                              tg_id, dist)

\* distribution_plan[tg_id] = distribution_plan.get(tg_id, []) + codes_given;
\* the plan is the dict as the sequence of its items in insertion order
plan_put(plan, tg_id, codes_given) ==
    IF \E k \in DOMAIN plan : plan[k][1] = tg_id
    THEN [k \in DOMAIN plan |->
            IF plan[k][1] = tg_id THEN <<tg_id, plan[k][2] \o codes_given>> ELSE plan[k]]
    ELSE Append(plan, <<tg_id, codes_given>>)

\* the loop over the positions without its `if codes_given:`
RECURSIVE select_all_keeps_empty(_, _, _, _, _, _, _)
select_all_keeps_empty(pos_idx, allocated, ordered, promo_iter, promo_idx, plan, dist) ==
    IF pos_idx > Len(ordered) THEN plan
    ELSE LET tg_id == ordered[pos_idx]
             cnt == allocated[pos_idx]
         IN IF tg_id = NULL \/ cnt <= 0
            THEN select_all_keeps_empty(pos_idx + 1, allocated, ordered, promo_iter,
                                        promo_idx, plan, dist)
            ELSE LET r == select_units(cnt, promo_iter, promo_idx, <<>>, tg_id, dist)
                 IN select_all_keeps_empty(pos_idx + 1, allocated, ordered, r.promo_iter,
                                           r.promo_idx,
                                           plan_put(plan, tg_id, r.codes_given), dist)

\* for pos_idx, cnt in enumerate(allocated)
RECURSIVE select_all(_, _, _, _, _, _, _)
select_all(pos_idx, allocated, ordered, promo_iter, promo_idx, plan, dist) ==
    IF pos_idx > Len(ordered) THEN plan
    ELSE LET tg_id == ordered[pos_idx]
             cnt == allocated[pos_idx]
         IN IF tg_id = NULL \/ cnt <= 0
            THEN select_all(pos_idx + 1, allocated, ordered, promo_iter, promo_idx, plan, dist)
            ELSE LET r == select_units(cnt, promo_iter, promo_idx, <<>>, tg_id, dist)
                 IN select_all(pos_idx + 1, allocated, ordered, r.promo_iter, r.promo_idx,
                               IF r.codes_given # <<>>
                               THEN plan_put(plan, tg_id, r.codes_given)
                               ELSE plan,
                               dist)

\* the budget with the reserve not held back
distributable_ignoring_reserve(promos, reserve) == total_available(promos)

\* distributable = total_available - reserve
distributable_of(promos, reserve) == total_available(promos) - reserve

compute_allocation_ordered(ordered, promos, reserve, dist) ==
    IF ordered = <<>> THEN <<>>
    ELSE IF distributable_of(promos, reserve) <= 0 THEN <<>>
    ELSE IF promo_iter_of(promos) = <<>> THEN <<>>
    ELSE select_all(1, entitlements(ordered, distributable_of(promos, reserve)), ordered,
                    promo_iter_of(promos), 0, <<>>, dist)

\* the allocation over the tables as they are now
current_plan ==
    compute_allocation_ordered(weekly_users[now], promocodes, get_reserve, distribution)

---------------------------------------------------------------------------
(* Inputs of the handlers *)

Callers == {"admin", "other"}   \* callback.from_user.id in ADMIN_IDS, or not

\* the rights check letting every caller through
has_rights_any(caller) == TRUE

\* if callback.from_user.id not in ADMIN_IDS: ... return
has_rights(caller) == caller = "admin"

\* the lines of a /setusers upload, each nick given as the tg_id of the approved
\* user it names, NULL for a nick that names none
Unbound(n) == [i \in 1..n |-> NULL]
RosterInputs ==
    { <<1, 1, 2>>, Unbound(TopSlots) \o <<1, 2>> }

\* the three codes typed into /addpromo
PromoInputs == { <<"A", "B", "B">> }

\* the codes typed into the last /givepromo answer
GiveParts ==
    { <<"A">>, <<"B">>, <<UnknownCode>>, <<"A", "B">>, <<"B", "B">> }
GiveQtys == {1, 2}

---------------------------------------------------------------------------
(* The tables *)

Row(tg_id, code, source) == [user_id |-> tg_id, code |-> code, source |-> source]

\* INSERT INTO distribution (user_id, promo_id, code, count, source, given_at)
insert_distribution(dist, tg_id, code, source) ==
    dist (+) SetToBag({Row(tg_id, code, source)})

\* the UPDATE matching no row
update_used_nowhere(promos, code) == promos

\* UPDATE promocodes SET used = used + 1 WHERE id = pid
update_used(promos, code) ==
    [i \in DOMAIN promos |->
        IF promos[i].code = code THEN [promos[i] EXCEPT !.used = @ + 1] ELSE promos[i]]

has_code(promos, code) == \E i \in DOMAIN promos : promos[i].code = code

promo_of(promos, code) == promos[CHOOSE i \in DOMAIN promos : promos[i].code = code]

\* the INSERT overwriting the row of a code that exists (ON CONFLICT DO UPDATE)
RECURSIVE add_promocodes_upsert(_, _, _)
add_promocodes_upsert(promos, codes, total_uses) ==
    IF codes = <<>> THEN promos
    ELSE add_promocodes_upsert(
            IF has_code(promos, Head(codes))
            THEN [i \in DOMAIN promos |->
                    IF promos[i].code = Head(codes)
                    THEN [promos[i] EXCEPT !.total_uses = total_uses, !.used = 0]
                    ELSE promos[i]]
            ELSE Append(promos, [code |-> Head(codes), total_uses |-> total_uses, used |-> 0]),
            Tail(codes), total_uses)

\* INSERT INTO promocodes ... VALUES (code, total_uses, 0, now) ON CONFLICT (code) DO NOTHING
RECURSIVE add_promocodes(_, _, _)
add_promocodes(promos, codes, total_uses) ==
    IF codes = <<>> THEN promos
    ELSE add_promocodes(
            IF has_code(promos, Head(codes)) THEN promos
            ELSE Append(promos, [code |-> Head(codes), total_uses |-> total_uses, used |-> 0]),
            Tail(codes), total_uses)

\* rem_map = {p["code"]: (p["id"], p["total_uses"] - p["used"]) for p in promos}
rem_map_of(promos) ==
    [c \in {promos[i].code : i \in DOMAIN promos} |->
        promo_of(promos, c).total_uses - promo_of(promos, c).used]

\* pid, rem = rem_map.get(code, (None, 0)); if pid is None or rem <= 0: continue
no_uses_left(rem_map, code) == code \notin DOMAIN rem_map \/ rem_map[code] <= 0

---------------------------------------------------------------------------
(* weekly_distribution_job *)

IdleJob == [pc |-> "idle", week |-> "", todo |-> <<>>, rem_map |-> <<>>]

\* `last`: the handler segment that ran last (op), how it ended (outcome), who
\* called it and the week key it computed.  last.watch names the handlers a
\* specification tells apart; a segment of any other handler is recorded as "other".
\* last.plan is the allocation a plan view showed.  last.sent is FALSE when the
\* bot.send_message to a participant the segment waited for raised; it is recorded
\* by a specification that watches "notify".  last.shown is the allocation in the
\* latest confirmation request sent to the administrators and last.asked the week
\* key that request names; they stay on the administrators' screens through the
\* later segments and are recorded by a specification that watches "preview".
EvPlan(op, outcome, caller, week, plan) ==
    IF op \in last.watch
    THEN [op |-> op, outcome |-> outcome, caller |-> caller, week |-> week,
          plan |-> plan, sent |-> TRUE, shown |-> last.shown,
          asked |-> last.asked, watch |-> last.watch]
    ELSE [op |-> "other", outcome |-> "", caller |-> "", week |-> "",
          plan |-> <<>>, sent |-> TRUE, shown |-> last.shown,
          asked |-> last.asked, watch |-> last.watch]

Ev(op, outcome, caller, week) == EvPlan(op, outcome, caller, week, <<>>)

EvSent(op, outcome, caller, week, delivered) ==
    IF op \in last.watch /\ "notify" \in last.watch
    THEN [Ev(op, outcome, caller, week) EXCEPT !.sent = delivered]
    ELSE Ev(op, outcome, caller, week)

\* the segment sent the administrators a confirmation request showing `plan`
EvShown(op, outcome, caller, week, plan) ==
    IF "preview" \in last.watch
    THEN [Ev(op, outcome, caller, week) EXCEPT !.shown = plan, !.asked = week]
    ELSE Ev(op, outcome, caller, week)

Started(watch) ==
    [op |-> "start", outcome |-> "", caller |-> "", week |-> "", plan |-> <<>>,
     sent |-> TRUE, shown |-> <<>>, asked |-> "", watch |-> watch]

\* a send_message that raises ending the coroutine that awaited it
notify_aborts_on_failure(delivered) == ~delivered

\* try: await bot.send_message(tg_id, ...) except: pass
notify_aborts(delivered) == FALSE

\* the job without its marker check
already_executed_never(week) == FALSE

\* if last == week: return
already_executed(week) == settings.last_distribution_date = week

\* the job without its confirmation check
not_confirmed_never == FALSE

\* if db_get_setting("weekly_confirmed") != "1": return
not_confirmed == settings.weekly_confirmed # "1"

\* the weekly loop without its user_already_has_code check
RECURSIVE weekly_issue_norecheck(_, _, _, _, _, _)
weekly_issue_norecheck(tg_id, codes, rem_map, dist, promos, issued) ==
    IF codes = <<>>
    THEN [distribution |-> dist, promocodes |-> promos, issued |-> issued]
    ELSE LET code == Head(codes)
         IN IF no_uses_left(rem_map, code)
            THEN weekly_issue_norecheck(tg_id, Tail(codes), rem_map, dist, promos, issued)
            ELSE weekly_issue_norecheck(tg_id, Tail(codes), rem_map,
                                        insert_distribution(dist, tg_id, code, "normal"),
                                        update_used(promos, code), Append(issued, code))

\* for code in codes: ... of one participant of the weekly job
RECURSIVE weekly_issue(_, _, _, _, _, _)
weekly_issue(tg_id, codes, rem_map, dist, promos, issued) ==
    IF codes = <<>>
    THEN [distribution |-> dist, promocodes |-> promos, issued |-> issued]
    ELSE LET code == Head(codes)
         IN IF no_uses_left(rem_map, code)
            THEN weekly_issue(tg_id, Tail(codes), rem_map, dist, promos, issued)
            ELSE IF user_already_has_code(dist, tg_id, code)
            THEN weekly_issue(tg_id, Tail(codes), rem_map, dist, promos, issued)
            ELSE weekly_issue(tg_id, Tail(codes), rem_map,
                              insert_distribution(dist, tg_id, code, "normal"),
                              update_used(promos, code), Append(issued, code))

\* for tg_id, codes in plan.items(): up to the next await bot.send_message,
\* which is reached only for a participant with issued codes
RECURSIVE weekly_loop(_, _, _, _)
weekly_loop(todo, rem_map, dist, promos) ==
    IF todo = <<>>
    THEN [distribution |-> dist, promocodes |-> promos, todo |-> <<>>, awaiting |-> FALSE]
    ELSE LET r == weekly_issue(Head(todo)[1], Head(todo)[2], rem_map, dist, promos, <<>>)
         IN IF r.issued # <<>>
            THEN [distribution |-> r.distribution, promocodes |-> r.promocodes,
                  todo |-> Tail(todo), awaiting |-> TRUE]
            ELSE weekly_loop(Tail(todo), rem_map, r.distribution, r.promocodes)

\* an empty plan marking the week as a full run does
weekly_infeasible_marks(s, week) ==
    [s EXCEPT !.last_distribution_date = week, !.weekly_confirmed = "0"]

\* an empty plan writing nothing
weekly_infeasible_silent(s, week) == s

\* if not plan: db_set_setting("weekly_confirmed", "0"); return  (week is not written)
weekly_infeasible(s, week) == [s EXCEPT !.weekly_confirmed = "0"]

\* the end of the job without the reset of the flag
weekly_finish_keeps_flag(s, week) == [s EXCEPT !.last_distribution_date = week]

\* db_set_setting("last_distribution_date", week); db_set_setting("weekly_confirmed", "0")
weekly_finish(s, week) ==
    [s EXCEPT !.last_distribution_date = week, !.weekly_confirmed = "0"]

\* try: scheduler.remove_job(f"weekly_reminder_{week}") except: pass
remove_job(jobs, week) == jobs \ {week}

\* the job issuing what the latest confirmation request showed
tick_plan_as_requested == last.shown

\* plan = compute_allocation_ordered()
tick_plan == current_plan

\* the loop from `todo` on, then the end of the job or its next await
WeeklySegment(op, week, todo, rem_map, delivered) ==
    LET r == weekly_loop(todo, rem_map, distribution, promocodes)
    IN /\ distribution' = r.distribution
       /\ promocodes' = r.promocodes
       /\ IF r.awaiting
          THEN /\ job' = [pc |-> "notify", week |-> week, todo |-> r.todo,
                          rem_map |-> rem_map]
               /\ settings' = settings
               /\ reminder' = reminder
               /\ last' = EvSent(op, "await", "scheduler", week, delivered)
          ELSE /\ job' = IdleJob
               /\ settings' = weekly_finish(settings, week)
               /\ reminder' = remove_job(reminder, week)
               /\ last' = EvSent(op, "done", "scheduler", week, delivered)

\* the scheduler starts the job; it runs to its first await or to its return
Tick ==
    /\ job.pc = "idle"
    /\ UNCHANGED <<weekly_users, now, assign, manual>>
    /\ LET week == get_week_start
       IN IF already_executed(week)
          THEN /\ UNCHANGED <<promocodes, distribution, settings, job, reminder>>
               /\ last' = Ev("tick", "already", "scheduler", week)
          ELSE IF not_confirmed
          THEN /\ UNCHANGED <<promocodes, distribution, settings, job, reminder>>
               /\ last' = Ev("tick", "unconfirmed", "scheduler", week)
          ELSE IF tick_plan = <<>>
          THEN /\ UNCHANGED <<promocodes, distribution, job, reminder>>
               /\ settings' = weekly_infeasible(settings, week)
               /\ last' = Ev("tick", "empty", "scheduler", week)
          ELSE WeeklySegment("tick", week, tick_plan, rem_map_of(promocodes), TRUE)

\* bot.send_message returned (delivered) or raised
TickResume(delivered) ==
    /\ job.pc = "notify"
    /\ UNCHANGED <<weekly_users, now, assign, manual>>
    /\ IF notify_aborts(delivered)
       THEN /\ job' = IdleJob
            /\ last' = EvSent("tick_resume", "raised", "scheduler", job.week, delivered)
            /\ UNCHANGED <<promocodes, distribution, settings, reminder>>
       ELSE WeeklySegment("tick_resume", job.week, job.todo, job.rem_map, delivered)

---------------------------------------------------------------------------
(* cb_manual_confirm *)

\* the manual loop without its user_already_has_code check
RECURSIVE manual_issue_norecheck(_, _, _, _, _, _)
manual_issue_norecheck(tg_id, codes, rem_map, dist, promos, issued) ==
    IF codes = <<>>
    THEN [distribution |-> dist, promocodes |-> promos, issued |-> issued]
    ELSE LET code == Head(codes)
         IN IF no_uses_left(rem_map, code)
            THEN manual_issue_norecheck(tg_id, Tail(codes), rem_map, dist, promos, issued)
            ELSE manual_issue_norecheck(tg_id, Tail(codes), rem_map,
                                        insert_distribution(dist, tg_id, code, "manual"),
                                        update_used(promos, code), Append(issued, code))

\* for code in codes: ... of one participant of the manual distribution
RECURSIVE manual_issue(_, _, _, _, _, _)
manual_issue(tg_id, codes, rem_map, dist, promos, issued) ==
    IF codes = <<>>
    THEN [distribution |-> dist, promocodes |-> promos, issued |-> issued]
    ELSE LET code == Head(codes)
         IN IF no_uses_left(rem_map, code)
            THEN manual_issue(tg_id, Tail(codes), rem_map, dist, promos, issued)
            ELSE IF user_already_has_code(dist, tg_id, code)
            THEN manual_issue(tg_id, Tail(codes), rem_map, dist, promos, issued)
            ELSE manual_issue(tg_id, Tail(codes), rem_map,
                              insert_distribution(dist, tg_id, code, "manual"),
                              update_used(promos, code), Append(issued, code))

RECURSIVE manual_loop(_, _, _, _)
manual_loop(todo, rem_map, dist, promos) ==
    IF todo = <<>>
    THEN [distribution |-> dist, promocodes |-> promos, todo |-> <<>>, awaiting |-> FALSE]
    ELSE LET r == manual_issue(Head(todo)[1], Head(todo)[2], rem_map, dist, promos, <<>>)
         IN IF r.issued # <<>>
            THEN [distribution |-> r.distribution, promocodes |-> r.promocodes,
                  todo |-> Tail(todo), awaiting |-> TRUE]
            ELSE manual_loop(Tail(todo), rem_map, r.distribution, r.promocodes)

\* the end of the manual distribution ending as the weekly job ends
manual_finish_clears(s, week) ==
    [s EXCEPT !.last_distribution_date = week, !.weekly_confirmed = "0"]

\* the end of the manual distribution writing no setting
manual_finish_unmarked(s, week) == s

\* db_set_setting("last_distribution_date", get_week_start())
manual_finish(s, week) == [s EXCEPT !.last_distribution_date = week]

IdleManual == [pc |-> "idle", week |-> "", todo |-> <<>>, rem_map |-> <<>>]

ManualSegment(op, todo, rem_map, delivered) ==
    LET r == manual_loop(todo, rem_map, distribution, promocodes)
    IN /\ distribution' = r.distribution
       /\ promocodes' = r.promocodes
       /\ IF r.awaiting
          THEN /\ manual' = [pc |-> "notify", week |-> manual.week, todo |-> r.todo,
                             rem_map |-> rem_map]
               /\ settings' = settings
               /\ last' = EvSent(op, "await", "admin", manual.week, delivered)
          ELSE /\ manual' = IdleManual
               /\ settings' = manual_finish(settings, get_week_start)
               /\ last' = EvSent(op, "done", "admin", get_week_start, delivered)

\* the callback arrives: the rights check, the plan, then await edit_text and sleep
ManualConfirm(caller) ==
    /\ manual.pc = "idle"
    /\ UNCHANGED <<promocodes, distribution, weekly_users, settings, now, assign, reminder, job>>
    /\ IF ~has_rights(caller)
       THEN /\ manual' = manual
            /\ last' = Ev("manual", "no_rights", caller, "")
       ELSE IF current_plan = <<>>
       THEN /\ manual' = manual
            /\ last' = Ev("manual", "empty", caller, get_week_start)
       ELSE /\ manual' = [pc |-> "sleep", week |-> get_week_start, todo |-> current_plan,
                          rem_map |-> <<>>]
            /\ last' = Ev("manual", "await", caller, get_week_start)

\* await callback.message.edit_text("...") raises: the handler ends there
ManualEditFails ==
    /\ manual.pc = "sleep"
    /\ manual' = IdleManual
    /\ last' = Ev("manual_wake", "raised", "admin", manual.week)
    /\ UNCHANGED <<promocodes, distribution, weekly_users, settings, now, assign, reminder, job>>

\* asyncio.sleep(0.5) is over: rem_map is read and the loop starts
ManualWake ==
    /\ manual.pc = "sleep"
    /\ UNCHANGED <<weekly_users, now, assign, reminder, job>>
    /\ ManualSegment("manual_wake", manual.todo, rem_map_of(promocodes), TRUE)

\* bot.send_message returned (delivered) or raised
ManualResume(delivered) ==
    /\ manual.pc = "notify"
    /\ UNCHANGED <<weekly_users, now, assign, reminder, job>>
    /\ IF notify_aborts(delivered)
       THEN /\ manual' = IdleManual
            /\ last' = EvSent("manual_resume", "raised", "admin", manual.week, delivered)
            /\ UNCHANGED <<promocodes, distribution, settings>>
       ELSE ManualSegment("manual_resume", manual.todo, manual.rem_map, delivered)

---------------------------------------------------------------------------
(* /givepromo: givepromo_codes_entered *)

\* the validation looking at the first code only
give_refusal_first_only(parts, tg_id, promos, dist) ==
    IF parts = <<>> THEN ""
    ELSE LET code == Head(parts)
         IN IF ~has_code(promos, code) THEN "not_found"
            ELSE IF promo_of(promos, code).total_uses - promo_of(promos, code).used <= 0
            THEN "exhausted"
            ELSE IF user_already_has_code(dist, tg_id, code) THEN "has_code"
            ELSE ""

\* the validation loop: the first code that is refused, "" when all pass
RECURSIVE give_refusal(_, _, _, _)
give_refusal(parts, tg_id, promos, dist) ==
    IF parts = <<>> THEN ""
    ELSE LET code == Head(parts)
         IN IF ~has_code(promos, code) THEN "not_found"
            ELSE IF promo_of(promos, code).total_uses - promo_of(promos, code).used <= 0
            THEN "exhausted"
            ELSE IF user_already_has_code(dist, tg_id, code) THEN "has_code"
            ELSE give_refusal(Tail(parts), tg_id, promos, dist)

\* for pid, code in valid: INSERT INTO distribution; UPDATE promocodes
RECURSIVE give_issue(_, _, _, _, _)
give_issue(parts, tg_id, give_type, dist, promos) ==
    IF parts = <<>> THEN [distribution |-> dist, promocodes |-> promos]
    ELSE give_issue(Tail(parts), tg_id, give_type,
                    insert_distribution(dist, tg_id, Head(parts), give_type),
                    update_used(promos, Head(parts)))

\* the reserve lowered without the clamp at 0
give_reserve_unclamped(s, give_type, n) ==
    IF give_type = "reserve" THEN [s EXCEPT !.reserve = @ - n] ELSE s

\* if give_type == "reserve": set_reserve(max(0, get_reserve() - len(issued_codes)))
give_reserve(s, give_type, n) ==
    IF give_type = "reserve" THEN [s EXCEPT !.reserve = Max(0, @ - n)] ELSE s

\* delivered: the send_message to the participant after the commit returned
GivePromo(tg_id, give_type, qty, parts, delivered) ==
    /\ UNCHANGED <<weekly_users, now, assign, reminder, job, manual>>
    /\ IF Len(parts) # qty
       THEN /\ UNCHANGED <<promocodes, distribution, settings>>
            /\ last' = Ev("givepromo", "refused", "admin", "")
       ELSE IF Cardinality(Range(parts)) # Len(parts)
       THEN /\ UNCHANGED <<promocodes, distribution, settings>>
            /\ last' = Ev("givepromo", "refused", "admin", "")
       ELSE IF give_refusal(parts, tg_id, promocodes, distribution) # ""
       THEN /\ UNCHANGED <<promocodes, distribution, settings>>
            /\ last' = Ev("givepromo", "refused", "admin", "")
       ELSE LET r == give_issue(parts, tg_id, give_type, distribution, promocodes)
            IN /\ distribution' = r.distribution
               /\ promocodes' = r.promocodes
               /\ settings' = give_reserve(settings, give_type, Len(parts))
               /\ last' = EvSent("givepromo", give_type, "admin", "", delivered)

---------------------------------------------------------------------------
(* /addpromo: addpromo_reserve;  /setusers: process_setusers_file *)

AddPromo(codes, uses, reserve_put) ==
    /\ get_reserve + reserve_put <= MaxReserve
    /\ promocodes' = add_promocodes(promocodes, codes, uses)
    /\ settings' = [settings EXCEPT !.reserve = get_reserve + reserve_put]
    /\ last' = Ev("addpromo", "done", "admin", "")
    /\ UNCHANGED <<distribution, weekly_users, now, assign, reminder, job, manual>>

\* DELETE FROM weekly_users WHERE week_start = week; one INSERT per line
SetUsers(lines) ==
    /\ weekly_users' = [weekly_users EXCEPT ![now] = lines]
    /\ last' = Ev("setusers", "done", "admin", get_week_start)
    /\ UNCHANGED <<promocodes, distribution, settings, now, assign, reminder, job, manual>>

---------------------------------------------------------------------------
(* /assign: assign_got_pos, cb_assign_choose *)

\* SELECT tg_id FROM users WHERE status = 'approved' AND tg_id NOT IN
\* (SELECT user_id FROM weekly_users WHERE week_start = week AND user_id IS NOT NULL)
free_users(roster) == Users \ Range(roster)

\* the position typed after /assign: buttons assign_choose:<pos>:<tg_id> are sent for
\* an existing unbound position, one per free user
AssignGotPos(pos) ==
    /\ assign' = IF /\ pos \in DOMAIN weekly_users[now]
                    /\ weekly_users[now][pos] = NULL
                 THEN assign \cup {<<pos, u>> : u \in free_users(weekly_users[now])}
                 ELSE assign
    /\ last' = Ev("assign_pos",
                  IF pos \notin DOMAIN weekly_users[now] THEN "no_position"
                  ELSE IF weekly_users[now][pos] # NULL THEN "occupied"
                  ELSE IF free_users(weekly_users[now]) = {} THEN "no_users"
                  ELSE "buttons", "admin", get_week_start)
    /\ UNCHANGED <<promocodes, distribution, weekly_users, settings, now, job, manual,
                   reminder>>

\* UPDATE weekly_users SET user_id = tg_id WHERE week_start = week AND position = pos
bind_position(roster, pos, tg_id) ==
    IF pos \in DOMAIN roster THEN [roster EXCEPT ![pos] = tg_id] ELSE roster

\* a button assign_choose:<pos>:<tg_id> of any message sent so far is pressed
AssignChoose(caller, pos, tg_id) ==
    /\ <<pos, tg_id>> \in assign
    /\ weekly_users' =
          IF has_rights(caller)
          THEN [weekly_users EXCEPT ![now] = bind_position(@, pos, tg_id)]
          ELSE weekly_users
    /\ last' = Ev("assign_choose", IF has_rights(caller) THEN "done" ELSE "no_rights",
                  caller, get_week_start)
    /\ UNCHANGED <<promocodes, distribution, settings, now, job, manual, assign, reminder>>

---------------------------------------------------------------------------
(* The weekly confirmation flow *)

\* the request writing no setting
request_flag_keeps(s) == s

\* send_weekly_confirmation: db_set_setting("weekly_confirmed", "0")
request_flag(s) == [s EXCEPT !.weekly_confirmed = "0"]

\* the confirmation writing the marker of the week as well
confirm_flag_marks(s) ==
    [s EXCEPT !.weekly_confirmed = "1", !.last_distribution_date = get_week_start]

\* cb_weekly_confirm: db_set_setting("weekly_confirmed", "1")
confirm_flag(s) == [s EXCEPT !.weekly_confirmed = "1"]

\* the error report writing nothing
error_flag_keeps(s) == s

\* cb_weekly_error: db_set_setting("weekly_confirmed", "0")
error_flag(s) == [s EXCEPT !.weekly_confirmed = "0"]

\* if now < remind_end: remove_job(job_id), then add_job(weekly_reminder_job, ...,
\* end_date=remind_end, args=[week], id=job_id)
add_reminder(jobs, week, in_time) == IF in_time THEN jobs \cup {week} ELSE jobs

\* send_weekly_confirmation; in_time: the requests went out before 21:15
RequestConfirmation(in_time) ==
    /\ settings' = request_flag(settings)
    /\ reminder' = add_reminder(reminder, get_week_start, in_time)
    /\ last' = EvShown("request", "done", "scheduler", get_week_start, current_plan)
    /\ UNCHANGED <<promocodes, distribution, weekly_users, now, assign, job, manual>>

\* if db_get_setting("weekly_confirmed") == "1": remove_job(...); return
reminder_cancelled(s) == s.weekly_confirmed = "1"

\* weekly_reminder_job(week), fired by its interval trigger
Reminder(week) ==
    /\ week \in reminder
    /\ IF reminder_cancelled(settings)
       THEN /\ reminder' = remove_job(reminder, week)
            /\ last' = Ev("reminder", "cancelled", "scheduler", week)
       ELSE /\ reminder' = reminder
            /\ last' = Ev("reminder", "ping", "scheduler", week)
    /\ UNCHANGED <<promocodes, distribution, weekly_users, settings, now, assign, job, manual>>

\* end_date=remind_end is reached: the scheduler drops the job
ReminderEnds(week) ==
    /\ week \in reminder
    /\ reminder' = remove_job(reminder, week)
    /\ last' = Ev("reminder_end", "done", "scheduler", week)
    /\ UNCHANGED <<promocodes, distribution, weekly_users, settings, now, assign, job, manual>>

\* cb_weekly_confirm
Confirm(caller) ==
    /\ settings' = IF has_rights(caller) THEN confirm_flag(settings) ELSE settings
    /\ last' = Ev("confirm", IF has_rights(caller) THEN "done" ELSE "no_rights", caller, "")
    /\ UNCHANGED <<promocodes, distribution, weekly_users, now, assign, reminder, job, manual>>

\* cb_weekly_error
ReportError(caller) ==
    /\ settings' = IF has_rights(caller) THEN error_flag(settings) ELSE settings
    /\ last' = Ev("error", IF has_rights(caller) THEN "done" ELSE "no_rights", caller, "")
    /\ UNCHANGED <<promocodes, distribution, weekly_users, now, assign, reminder, job, manual>>

\* cb_weekly_error_choice: the chosen cause is shown, nothing is written
ErrorChoice(caller) ==
    /\ last' = Ev("hint", IF has_rights(caller) THEN "done" ELSE "no_rights", caller, "")
    /\ UNCHANGED <<promocodes, distribution, weekly_users, settings, now, assign, reminder,
                   job, manual>>

\* a plan view writing the decrements of promo_iter back as used counts
RECURSIVE promos_after_preview_written(_, _)
promos_after_preview_written(promos, plan) ==
    IF plan = <<>> THEN promos
    ELSE promos_after_preview_written(
            [i \in DOMAIN promos |->
                IF promos[i].code \in Range(Head(plan)[2])
                THEN [promos[i] EXCEPT !.used = @ + 1] ELSE promos[i]],
            Tail(plan))

\* promo_iter holds copies of the fetched rows: promo_iter[idx]["remaining"] -= 1
\* changes no row of promocodes
promos_after_preview(promos, plan) == promos

\* a plan view (weekly_plan, manual_plan, report_plan): the allocation is
\* recomputed and shown
PlanView(view, caller) ==
    /\ last' = IF ~has_rights(caller)
               THEN Ev(view, "no_rights", caller, "")
               ELSE EvPlan(view, IF current_plan = <<>> THEN "empty" ELSE "shown",
                           caller, get_week_start, current_plan)
    /\ promocodes' = IF has_rights(caller)
                     THEN promos_after_preview(promocodes, current_plan)
                     ELSE promocodes
    /\ UNCHANGED <<distribution, weekly_users, settings, now, assign, reminder, job, manual>>

\* cb_weekly_plan
WeeklyPlan(caller) == PlanView("plan", caller)

\* cb_manual_plan
ManualPlan(caller) == PlanView("manual_plan", caller)

\* cb_report_plan
ReportPlan(caller) == PlanView("report_plan", caller)

\* the anchor Sunday 21:08 passes: get_week_start() returns the next key
NextWeek ==
    /\ now < MaxWeek
    /\ now' = now + 1
    /\ last' = Ev("clock", "done", "", WeekKey(now + 1))
    /\ UNCHANGED <<promocodes, distribution, weekly_users, settings, job, manual,
                   assign, reminder>>

---------------------------------------------------------------------------
(* The engine *)

\* the segments of the two executions
ExecutionOps == {"tick", "tick_resume", "manual", "manual_wake", "manual_resume"}

Init ==
    /\ promocodes = <<>>
    /\ distribution = EmptyBag
    /\ weekly_users = [w \in 1..MaxWeek |-> <<>>]
    /\ settings = [reserve |-> RESERVE_DEFAULT, weekly_confirmed |-> "0",
                   last_distribution_date |-> ""]
    /\ now = 1
    /\ job = IdleJob
    /\ manual = IdleManual
    /\ assign = {}
    /\ reminder = {}
    /\ last = Started(ExecutionOps)

Next ==
    \/ \E codes \in PromoInputs, uses \in 0..MaxUses :
          \E reserve_put \in 0..uses : AddPromo(codes, uses, reserve_put)
    \/ \E lines \in RosterInputs : SetUsers(lines)
    \/ \E tg_id \in Users, qty \in GiveQtys, parts \in GiveParts :
          \E delivered \in BOOLEAN : GivePromo(tg_id, "reserve", qty, parts, delivered)
    \* the reminder job the request may add is followed in SpecRemind
    \/ RequestConfirmation(FALSE)
    \/ \E caller \in Callers : Confirm(caller)
    \/ \E caller \in Callers : ReportError(caller)
    \/ Tick
    \/ \E delivered \in BOOLEAN : TickResume(delivered)
    \/ \E caller \in Callers : ManualConfirm(caller)
    \/ ManualEditFails
    \/ ManualWake
    \/ \E delivered \in BOOLEAN : ManualResume(delivered)

Spec == Init /\ [][Next]_vars

---------------------------------------------------------------------------
(* The confirmation flow, the plan views and the two executions, every       *)
(* handler told apart in `last`; without /givepromo.                          *)

ConfirmOps ==
    ExecutionOps \cup {"request", "confirm", "error", "hint",
                       "plan", "manual_plan", "report_plan"}

InitConfirm ==
    /\ promocodes = <<>>
    /\ distribution = EmptyBag
    /\ weekly_users = [w \in 1..MaxWeek |-> <<>>]
    /\ settings = [reserve |-> RESERVE_DEFAULT, weekly_confirmed |-> "0",
                   last_distribution_date |-> ""]
    /\ now = 1
    /\ job = IdleJob
    /\ manual = IdleManual
    /\ assign = {}
    /\ reminder = {}
    /\ last = Started(ConfirmOps)

NextConfirm ==
    \/ \E codes \in PromoInputs, uses \in 0..MaxUses :
          \E reserve_put \in 0..uses : AddPromo(codes, uses, reserve_put)
    \/ \E lines \in RosterInputs : SetUsers(lines)
    \/ \E in_time \in BOOLEAN : RequestConfirmation(in_time)
    \/ \E caller \in Callers : Confirm(caller)
    \/ \E caller \in Callers : ReportError(caller)
    \/ \E caller \in Callers : ErrorChoice(caller)
    \/ \E caller \in Callers : WeeklyPlan(caller)
    \/ \E caller \in Callers : ManualPlan(caller)
    \/ \E caller \in Callers : ReportPlan(caller)
    \/ Tick
    \/ \E delivered \in BOOLEAN : TickResume(delivered)
    \/ \E caller \in Callers : ManualConfirm(caller)
    \/ ManualEditFails
    \/ ManualWake
    \/ \E delivered \in BOOLEAN : ManualResume(delivered)

SpecConfirm == InitConfirm /\ [][NextConfirm]_vars

---------------------------------------------------------------------------
(* The roster of the week: uploads and the assign flow, over the weeks.       *)

MaxRoster == 2      \* most lines of an upload

RosterOps == {"setusers", "assign_pos", "assign_choose", "clock"}

\* the non-empty uploads (an empty one is refused before any write)
RosterUploads == UNION { [1..n -> Users \cup {NULL}] : n \in 1..MaxRoster }

InitRoster ==
    /\ promocodes = <<>>
    /\ distribution = EmptyBag
    /\ weekly_users = [w \in 1..MaxWeek |-> <<>>]
    /\ settings = [reserve |-> RESERVE_DEFAULT, weekly_confirmed |-> "0",
                   last_distribution_date |-> ""]
    /\ now = 1
    /\ job = IdleJob
    /\ manual = IdleManual
    /\ assign = {}
    /\ reminder = {}
    /\ last = Started(RosterOps)

NextRoster ==
    \/ \E lines \in RosterUploads : SetUsers(lines)
    \/ \E pos \in 1..(MaxRoster + 1) : AssignGotPos(pos)
    \/ \E caller \in Callers, pos \in 1..MaxRoster, tg_id \in Users :
          AssignChoose(caller, pos, tg_id)
    \/ NextWeek

SpecRoster == InitRoster /\ [][NextRoster]_vars

---------------------------------------------------------------------------
(* The reminders: the confirmation flow, the reminder jobs of the scheduler,  *)
(* the two executions and the clock.                                          *)

RemindOps ==
    ExecutionOps \cup {"request", "confirm", "error", "reminder", "reminder_end", "clock"}

InitRemind ==
    /\ promocodes = <<>>
    /\ distribution = EmptyBag
    /\ weekly_users = [w \in 1..MaxWeek |-> <<>>]
    /\ settings = [reserve |-> RESERVE_DEFAULT, weekly_confirmed |-> "0",
                   last_distribution_date |-> ""]
    /\ now = 1
    /\ job = IdleJob
    /\ manual = IdleManual
    /\ assign = {}
    /\ reminder = {}
    /\ last = Started(RemindOps)

NextRemind ==
    \/ \E codes \in PromoInputs : AddPromo(codes, 1, 0)
    \/ \E lines \in RosterInputs : SetUsers(lines)
    \/ \E in_time \in BOOLEAN : RequestConfirmation(in_time)
    \/ Confirm("admin")
    \/ ReportError("admin")
    \/ \E w \in 1..MaxWeek : Reminder(WeekKey(w))
    \/ \E w \in 1..MaxWeek : ReminderEnds(WeekKey(w))
    \/ Tick
    \/ \E delivered \in BOOLEAN : TickResume(delivered)
    \/ ManualConfirm("admin")
    \/ ManualEditFails
    \/ ManualWake
    \/ \E delivered \in BOOLEAN : ManualResume(delivered)
    \/ NextWeek

SpecRemind == InitRemind /\ [][NextRemind]_vars

---------------------------------------------------------------------------
(* Every handler that issues codes or writes the reserve, with the outcome of *)
(* the notifications and both channels of /givepromo.                         *)

GiveTypes == {"reserve", "free"}

IssueOps ==
    ExecutionOps \cup {"addpromo", "givepromo", "confirm", "error", "plan", "notify"}

InitIssue ==
    /\ promocodes = <<>>
    /\ distribution = EmptyBag
    /\ weekly_users = [w \in 1..MaxWeek |-> <<>>]
    /\ settings = [reserve |-> RESERVE_DEFAULT, weekly_confirmed |-> "0",
                   last_distribution_date |-> ""]
    /\ now = 1
    /\ job = IdleJob
    /\ manual = IdleManual
    /\ assign = {}
    /\ reminder = {}
    /\ last = Started(IssueOps)

NextIssue ==
    \/ \E codes \in PromoInputs, uses \in 1..MaxUses :
          \E reserve_put \in 0..uses : AddPromo(codes, uses, reserve_put)
    \/ SetUsers(<<1, 2>>)
    \/ \E give_type \in GiveTypes, qty \in GiveQtys, parts \in GiveParts :
          \E delivered \in BOOLEAN : GivePromo(1, give_type, qty, parts, delivered)
    \/ Confirm("admin")
    \/ ReportError("admin")
    \/ WeeklyPlan("admin")
    \/ Tick
    \/ \E delivered \in BOOLEAN : TickResume(delivered)
    \/ ManualConfirm("admin")
    \/ ManualEditFails
    \/ ManualWake
    \/ \E delivered \in BOOLEAN : ManualResume(delivered)

SpecIssue == InitIssue /\ [][NextIssue]_vars

---------------------------------------------------------------------------
(* The quantity passes of the allocation: long rosters with and without       *)
(* unbound positions, and budgets up to more than the quotas of twenty        *)
(* positions.                                                                 *)

QuotaMaxUses == 52      \* largest total_uses of code A
QuotaMaxReserve == 1    \* largest reserve
QuotaMaxLen == 20       \* longest roster

QuotaLens == {1, 3, TopSlots, TopSlots + 1, TopSlots + 2, QuotaMaxLen}

\* the unbound positions of a roster
QuotaGaps(n) ==
    { {}, {1}, {2}, {TopSlots}, {TopSlots + 1}, 1..TopSlots, (TopSlots + 1)..n, 1..n }

\* a roster of n positions, unbound on gaps, bound to the two users in turn elsewhere
QuotaRoster(n, gaps) ==
    [i \in 1..n |-> IF i \in gaps THEN NULL ELSE (i % 2) + 1]

InitQuota ==
    /\ \E ta \in 0..QuotaMaxUses, tb \in 0..1 :
          promocodes = <<[code |-> "A", total_uses |-> ta, used |-> 0],
                         [code |-> "B", total_uses |-> tb, used |-> 0]>>
    /\ distribution = EmptyBag
    /\ \E n \in QuotaLens : \E gaps \in QuotaGaps(n) :
          weekly_users = [w \in 1..MaxWeek |-> IF w = 1 THEN QuotaRoster(n, gaps) ELSE <<>>]
    /\ \E reserve \in 0..QuotaMaxReserve :
          settings = [reserve |-> reserve, weekly_confirmed |-> "0",
                      last_distribution_date |-> ""]
    /\ now = 1
    /\ job = IdleJob
    /\ manual = IdleManual
    /\ assign = {}
    /\ reminder = {}
    /\ last = Started({"plan"})

NextQuota == WeeklyPlan("admin")

SpecQuota == InitQuota /\ [][NextQuota]_vars

---------------------------------------------------------------------------
(* The scheduled path with the preview of the confirmation request kept:      *)
(* request, confirm, the handlers that change the tables, then the job.       *)

FreshOps ==
    {"tick", "tick_resume", "request", "confirm", "addpromo", "setusers", "givepromo",
     "preview"}

InitFresh ==
    /\ promocodes = <<>>
    /\ distribution = EmptyBag
    /\ weekly_users = [w \in 1..MaxWeek |-> <<>>]
    /\ settings = [reserve |-> RESERVE_DEFAULT, weekly_confirmed |-> "0",
                   last_distribution_date |-> ""]
    /\ now = 1
    /\ job = IdleJob
    /\ manual = IdleManual
    /\ assign = {}
    /\ reminder = {}
    /\ last = Started(FreshOps)

NextFresh ==
    \/ \E codes \in PromoInputs, uses \in 1..MaxUses :
          \E reserve_put \in 0..uses : AddPromo(codes, uses, reserve_put)
    \/ \E lines \in RosterInputs \cup {<<2, 1>>} : SetUsers(lines)
    \/ \E tg_id \in Users, give_type \in GiveTypes :
          GivePromo(tg_id, give_type, 1, <<"A">>, TRUE)
    \/ RequestConfirmation(FALSE)
    \/ Confirm("admin")
    \/ Tick
    \/ \E delivered \in BOOLEAN : TickResume(delivered)

SpecFresh == InitFresh /\ [][NextFresh]_vars

---------------------------------------------------------------------------
(* The two cron jobs on the clock: the confirmation request of Sunday 21:07,  *)
(* the anchor of Sunday 21:08 and the distribution job that the scheduler     *)
(* fires at that instant.                                                     *)

CronOps ==
    {"tick", "tick_resume", "request", "confirm", "setusers", "addpromo", "clock",
     "preview"}

InitCron ==
    /\ promocodes = <<>>
    /\ distribution = EmptyBag
    /\ weekly_users = [w \in 1..MaxWeek |-> <<>>]
    /\ settings = [reserve |-> RESERVE_DEFAULT, weekly_confirmed |-> "0",
                   last_distribution_date |-> ""]
    /\ now = 1
    /\ job = IdleJob
    /\ manual = IdleManual
    /\ assign = {}
    /\ reminder = {}
    /\ last = Started(CronOps)

\* scheduler.add_job(send_weekly_confirmation, "cron", day_of_week="sun", hour=21, minute=7):
\* once in a week, before its end
CronRequest ==
    /\ last.asked # get_week_start
    /\ RequestConfirmation(TRUE)

\* scheduler.add_job(weekly_distribution_job, "cron", day_of_week="sun", hour=21, minute=8):
\* the job starts as the anchor has passed.  It finds no roster under the key of
\* the week that begins, so it never reaches a notification await on this clock.
CronTick ==
    /\ last.op = "clock"
    /\ Tick

NextCron ==
    \/ \E codes \in PromoInputs, uses \in 1..MaxUses : AddPromo(codes, uses, 0)
    \/ \E lines \in RosterInputs : SetUsers(lines)
    \/ CronRequest
    \/ \E caller \in Callers : Confirm(caller)
    \/ NextWeek
    \/ CronTick

SpecCron == InitCron /\ [][NextCron]_vars

---------------------------------------------------------------------------
(* A handler run with no other handler scheduled at its awaits *)

RECURSIVE weekly_alone(_, _, _, _)
weekly_alone(todo, rem_map, dist, promos) ==
    LET r == weekly_loop(todo, rem_map, dist, promos)
    IN IF r.awaiting
       THEN weekly_alone(r.todo, rem_map, r.distribution, r.promocodes)
       ELSE r

RECURSIVE manual_alone(_, _, _, _)
manual_alone(todo, rem_map, dist, promos) ==
    LET r == manual_loop(todo, rem_map, dist, promos)
    IN IF r.awaiting
       THEN manual_alone(r.todo, rem_map, r.distribution, r.promocodes)
       ELSE r

Tables == [distribution |-> distribution, promocodes |-> promocodes, settings |-> settings]

\* weekly_distribution_job from the tables as they are now
TickAlone ==
    IF already_executed(get_week_start) THEN Tables
    ELSE IF not_confirmed THEN Tables
    ELSE IF current_plan = <<>>
    THEN [Tables EXCEPT !.settings = weekly_infeasible(settings, get_week_start)]
    ELSE LET r == weekly_alone(current_plan, rem_map_of(promocodes), distribution, promocodes)
         IN [distribution |-> r.distribution, promocodes |-> r.promocodes,
             settings |-> weekly_finish(settings, get_week_start)]

\* cb_manual_confirm, called by an administrator, from the tables as they are now
ManualAlone ==
    IF current_plan = <<>> THEN Tables
    ELSE LET r == manual_alone(current_plan, rem_map_of(promocodes), distribution, promocodes)
         IN [distribution |-> r.distribution, promocodes |-> r.promocodes,
             settings |-> manual_finish(settings, get_week_start)]

\* givepromo_codes_entered from the tables as they are now
GiveAlone(tg_id, give_type, qty, parts) ==
    IF Len(parts) # qty THEN Tables
    ELSE IF Cardinality(Range(parts)) # Len(parts) THEN Tables
    ELSE IF give_refusal(parts, tg_id, promocodes, distribution) # "" THEN Tables
    ELSE LET r == give_issue(parts, tg_id, give_type, distribution, promocodes)
         IN [distribution |-> r.distribution, promocodes |-> r.promocodes,
             settings |-> give_reserve(settings, give_type, Len(parts))]

---------------------------------------------------------------------------
(* The allocation algorithm alone: the tables are drawn from the states the   *)
(* store can hold (every code's used count is its number of ledger rows), the *)
(* roster from the uploads, and a plan view applies the algorithm.            *)

AllocMaxUses == 2       \* largest total_uses of a code
AllocMaxReserve == 2    \* largest reserve
AllocMaxTail == 3       \* roster positions after the leading unbound block

AllocRosters ==
    { Unbound(k) \o t : k \in {0, TopSlots - 1, TopSlots},
                        t \in UNION { [1..n -> Users \cup {NULL}] : n \in 0..AllocMaxTail } }

\* the ledgers: which users hold code A, which hold code B
AllocLedger(ha, hb) ==
    SetToBag({Row(u, "A", "free") : u \in ha} \cup {Row(u, "B", "manual") : u \in hb})

InitAlloc ==
    /\ \E ha, hb \in SUBSET Users :
       \E ta \in Cardinality(ha)..AllocMaxUses, tb \in Cardinality(hb)..AllocMaxUses :
          /\ distribution = AllocLedger(ha, hb)
          /\ promocodes = <<[code |-> "A", total_uses |-> ta, used |-> Cardinality(ha)],
                            [code |-> "B", total_uses |-> tb, used |-> Cardinality(hb)]>>
    /\ \E r \in AllocRosters : weekly_users = [w \in 1..MaxWeek |-> IF w = 1 THEN r ELSE <<>>]
    /\ \E reserve \in 0..AllocMaxReserve :
          settings = [reserve |-> reserve, weekly_confirmed |-> "0",
                      last_distribution_date |-> ""]
    /\ now = 1
    /\ job = IdleJob
    /\ manual = IdleManual
    /\ assign = {}
    /\ reminder = {}
    /\ last = Started({"plan"})

NextAlloc == WeeklyPlan("admin")

SpecAlloc == InitAlloc /\ [][NextAlloc]_vars

---------------------------------------------------------------------------
(* /givepromo alone: the tables are drawn as for the allocation, and every    *)
(* answer an administrator can type is applied, one after the other.          *)

InitGive ==
    /\ \E ha, hb \in SUBSET Users :
       \E ta \in Cardinality(ha)..AllocMaxUses, tb \in Cardinality(hb)..AllocMaxUses :
          /\ distribution = AllocLedger(ha, hb)
          /\ promocodes = <<[code |-> "A", total_uses |-> ta, used |-> Cardinality(ha)],
                            [code |-> "B", total_uses |-> tb, used |-> Cardinality(hb)]>>
    /\ weekly_users = [w \in 1..MaxWeek |-> <<>>]
    /\ \E reserve \in 0..AllocMaxReserve :
          settings = [reserve |-> reserve, weekly_confirmed |-> "0",
                      last_distribution_date |-> ""]
    /\ now = 1
    /\ job = IdleJob
    /\ manual = IdleManual
    /\ assign = {}
    /\ reminder = {}
    /\ last = Started({"givepromo", "notify"})

NextGive ==
    \E tg_id \in Users, give_type \in GiveTypes, qty \in GiveQtys, parts \in GiveParts :
       \E delivered \in BOOLEAN : GivePromo(tg_id, give_type, qty, parts, delivered)

SpecGive == InitGive /\ [][NextGive]_vars

---------------------------------------------------------------------------
(* The allocation over an unused pool of two codes and a roster of three      *)
(* bound positions.                                                           *)

ExampleMaxUses == 5      \* largest total_uses of a code
ExampleMaxReserve == 2   \* largest reserve
ExampleUsers == {1, 2, 3}

InitExample ==
    /\ \E ta, tb \in 0..ExampleMaxUses :
          promocodes = <<[code |-> "A", total_uses |-> ta, used |-> 0],
                         [code |-> "B", total_uses |-> tb, used |-> 0]>>
    /\ distribution = EmptyBag
    /\ \E r \in [1..3 -> ExampleUsers] :
          weekly_users = [w \in 1..MaxWeek |-> IF w = 1 THEN r ELSE <<>>]
    /\ \E reserve \in 0..ExampleMaxReserve :
          settings = [reserve |-> reserve, weekly_confirmed |-> "0",
                      last_distribution_date |-> ""]
    /\ now = 1
    /\ job = IdleJob
    /\ manual = IdleManual
    /\ assign = {}
    /\ reminder = {}
    /\ last = Started({"plan"})

NextExample == WeeklyPlan("admin")

SpecExample == InitExample /\ [][NextExample]_vars

---------------------------------------------------------------------------
(* Properties *)

Restrict(dist, S) == [e \in S |-> dist[e]]

\* number of ledger rows of a user and a code, of a code, of a source
rows_of_pair(dist, tg_id, code) ==
    BagCardinality(Restrict(dist, {e \in BagToSet(dist) : e.user_id = tg_id /\ e.code = code}))
rows_of_code(dist, code) ==
    BagCardinality(Restrict(dist, {e \in BagToSet(dist) : e.code = code}))
rows_of_source(dist, source) ==
    BagCardinality(Restrict(dist, {e \in BagToSet(dist) : e.source = source}))

PlanUnits(plan) == SeqSum([i \in DOMAIN plan |-> Len(plan[i][2])])

TickOps == {"tick", "tick_resume"}
ManualOps == {"manual", "manual_wake", "manual_resume"}

\* C1: the ledger holds at most one row for a participant and a code, whatever
\* the interleaving of the weekly job, the manual distribution and /givepromo.
C1_Uniqueness ==
    \A e \in BagToSet(distribution) : rows_of_pair(distribution, e.user_id, e.code) <= 1

\* the weekly job waits at a notification while a code still on its list has
\* been given to that participant by another handler
C1_Witness ==
    /\ job.pc = "notify"
    /\ \E k \in DOMAIN job.todo : \E c \in Range(job.todo[k][2]) :
          /\ user_already_has_code(distribution, job.todo[k][1], c)
          /\ ~no_uses_left(job.rem_map, c)

\* C2: the used count of a code never passes its total_uses, also when other
\* handlers run at the notification awaits of an execution.
C2_WithinBudget ==
    \A i \in DOMAIN promocodes : promocodes[i].used <= promocodes[i].total_uses

\* C3: a tick that finds the marker equal to the week key changes no table and
\* no setting, and a tick that follows a returned tick changes nothing either.
C3_TickIdempotent ==
    /\ [][ (job.pc = "idle" /\ last'.op = "tick"
                /\ settings.last_distribution_date = get_week_start)
            => UNCHANGED <<promocodes, distribution, weekly_users, settings, job>> ]_vars
    /\ [][ (last.op \in TickOps /\ last.outcome # "await" /\ last'.op = "tick")
            => UNCHANGED <<promocodes, distribution, weekly_users, settings, job>> ]_vars

\* a tick returned at the marker check although the flag was set and the
\* allocation was not empty
C3_Witness ==
    /\ last.op = "tick" /\ last.outcome = "already"
    /\ settings.weekly_confirmed = "1"
    /\ current_plan # <<>>
    /\ distribution # EmptyBag

\* C4: a tick that finds the flag not set adds no row, uses no code and leaves
\* the marker; a row tagged normal is added only by a tick that found the flag
\* set, or by that tick going on after a notification.
C4_TickNeedsConfirmation ==
    /\ [][ (job.pc = "idle" /\ last'.op = "tick" /\ settings.weekly_confirmed # "1")
            => /\ UNCHANGED <<promocodes, distribution, job>>
               /\ settings'.last_distribution_date = settings.last_distribution_date ]_vars
    /\ [][ rows_of_source(distribution', "normal") # rows_of_source(distribution, "normal")
            => \/ last'.op = "tick" /\ settings.weekly_confirmed = "1"
               \/ last'.op = "tick_resume" /\ job.pc = "notify" ]_vars
    /\ [][ (job'.pc = "notify" /\ job.pc = "idle")
            => last'.op = "tick" /\ settings.weekly_confirmed = "1" ]_vars

\* a tick returned at the flag check although the period was not marked and
\* the allocation was not empty
C4_Witness ==
    /\ last.op = "tick" /\ last.outcome = "unconfirmed"
    /\ settings.last_distribution_date # get_week_start
    /\ current_plan # <<>>

C6_SingleExecution ==
    ~(job.pc = "notify" /\ manual.pc = "notify" /\ job.week = manual.week)

C8_UsedCountsRows ==
    /\ \A i \in DOMAIN promocodes :
          promocodes[i].used = rows_of_code(distribution, promocodes[i].code)
    /\ \A e \in BagToSet(distribution) : has_code(promocodes, e.code)

\* both executions wait at a notification, each with rows issued
C8_Witness ==
    /\ job.pc = "notify" /\ manual.pc = "notify"
    /\ rows_of_source(distribution, "normal") > 0
    /\ rows_of_source(distribution, "manual") > 0
    /\ rows_of_source(distribution, "reserve") > 0

\* the rows of `dist` with the source dropped
Pairs(dist) ==
    [pr \in {<<e.user_id, e.code>> : e \in BagToSet(dist)} |->
        rows_of_pair(dist, pr[1], pr[2])]

NewSources(r) == {e.source : e \in BagToSet(r.distribution (-) distribution)}

C10_TickMarksAndClears ==
    (last.op \in TickOps /\ last.outcome = "done")
        => /\ settings.last_distribution_date = last.week
           /\ settings.weekly_confirmed = "0"

\* a tick has finished after a notification, with rows issued
C10_Witness ==
    /\ last.op = "tick_resume" /\ last.outcome = "done"
    /\ rows_of_source(distribution, "normal") > 0
    /\ job.pc = "idle"

\* C11 as stated: a tick that found the flag set, the period not marked and
\* the allocation empty has set the marker to the week key.
C11_EmptyPlanMarks ==
    (last.op = "tick" /\ last.outcome = "empty")
        => settings.last_distribution_date = last.week

\* C11 amended: a tick that finds the flag set, the period not marked and the
\* allocation empty adds no row, uses no code, clears the flag and leaves the
\* marker as it was.
C11_EmptyPlanClearsFlag ==
    [][ (job.pc = "idle" /\ last'.op = "tick"
             /\ settings.weekly_confirmed = "1"
             /\ settings.last_distribution_date # get_week_start
             /\ current_plan = <<>>)
         => /\ UNCHANGED <<promocodes, distribution, weekly_users, job>>
            /\ settings' = [settings EXCEPT !.weekly_confirmed = "0"] ]_vars

\* a tick returned at the empty plan with a roster uploaded and the reserve
\* equal to the uses that are left
C11_Witness ==
    /\ last.op = "tick" /\ last.outcome = "empty"
    /\ weekly_users[now] # <<>>
    /\ get_reserve > 0
    /\ total_available(promocodes) = get_reserve
    /\ settings.last_distribution_date # get_week_start
    /\ settings.weekly_confirmed = "0"

PlanOps == {"plan", "manual_plan", "report_plan"}

\* C13: a plan view, in whatever state of the confirmation flow and of the
\* executions, leaves the ledger, every used count and the reserve as they
\* were; so does the preview inside the confirmation request.
C13_PreviewWritesNothing ==
    /\ [][ last'.op \in PlanOps
            => UNCHANGED <<promocodes, distribution, weekly_users, settings, job, manual>> ]_vars
    /\ [][ last'.op = "request"
            => /\ UNCHANGED <<promocodes, distribution, weekly_users, job, manual>>
               /\ settings'.reserve = settings.reserve ]_vars

\* a plan was shown while the flag was set and the weekly job waited at a
\* notification with participants left
C13_Witness ==
    /\ last.op \in PlanOps /\ last.outcome = "shown"
    /\ PlanUnits(last.plan) > 0
    /\ settings.weekly_confirmed = "1"
    /\ job.pc = "notify" /\ job.todo # <<>>

\* C14: a confirm, an error report, an error cause choice, a manual
\* distribution or a plan view called without rights changes no table, no
\* setting and no execution.
C14_NoRightsNoChange ==
    [][ (last'.op \in {"confirm", "error", "hint", "manual"} \cup PlanOps
             /\ last'.caller = "other")
         => UNCHANGED <<promocodes, distribution, weekly_users, settings, now, job, manual>> ]_vars

\* a manual distribution was refused for lack of rights although the flag
\* was not set, rows could be issued and no execution was running
C14_Witness ==
    /\ last.op = "manual" /\ last.caller = "other" /\ last.outcome = "no_rights"
    /\ current_plan # <<>>
    /\ settings.weekly_confirmed = "0"
    /\ manual.pc = "idle" /\ job.pc = "idle"

\* C15: a confirm that arrives before any request, right after a finished
\* execution or right after an error report does not set the flag.
C15_ConfirmOnlyWhenAwaiting ==
    [][ (last'.op = "confirm"
             /\ \/ last.op = "start"
                \/ last.op \in TickOps /\ last.outcome = "done"
                \/ last.op = "error" /\ last.caller = "admin")
         => settings'.weekly_confirmed # "1" ]_vars

\* C16: an error report by an administrator leaves the flag not set, set
\* before or not, and writes nothing else; the flag is set again only by a
\* confirm of an administrator; a tick right after the report adds no row
\* and uses no code.
C16_ErrorReportClears ==
    /\ [][ (last'.op = "error" /\ last'.caller = "admin")
            => /\ settings'.weekly_confirmed = "0"
               /\ UNCHANGED <<promocodes, distribution, weekly_users, job, manual>> ]_vars
    /\ [][ (settings.weekly_confirmed # "1" /\ settings'.weekly_confirmed = "1")
            => last'.op = "confirm" /\ last'.caller = "admin" ]_vars
    /\ [][ (last.op = "error" /\ last.caller = "admin" /\ job.pc = "idle"
                /\ last'.op = "tick")
            => UNCHANGED <<promocodes, distribution, settings, job>> ]_vars

\* an error report has just been taken while the period was not marked, the
\* allocation was not empty and no tick was running
C16_Witness ==
    /\ last.op = "error" /\ last.caller = "admin"
    /\ settings.weekly_confirmed = "0"
    /\ settings.last_distribution_date # get_week_start
    /\ current_plan # <<>>
    /\ job.pc = "idle"

\* C17: no participant's list of a computed allocation names a code twice.
C17_DistinctCodes ==
    last.op = "plan"
        => \A i \in DOMAIN last.plan :
              Cardinality(Range(last.plan[i][2])) = Len(last.plan[i][2])

\* C18: the allocation computed in any state names for no participant a code
\* the ledger already holds for that participant, and no step adds a row for
\* a participant and a code the ledger already held for that participant.
C18_NoCodeAlreadyHeld ==
    /\ [](\A i \in DOMAIN current_plan : \A c \in Range(current_plan[i][2]) :
              rows_of_pair(distribution, current_plan[i][1], c) = 0)
    /\ [][ \A u \in Users, c \in CodeNames :
              rows_of_pair(distribution', u, c) > rows_of_pair(distribution, u, c)
                  => rows_of_pair(distribution, u, c) = 0 ]_vars

\* a tick has finished; a participant holds one code from /givepromo and
\* another from the tick, and the code from /givepromo has uses left
C18_Witness ==
    /\ last.op \in TickOps /\ last.outcome = "done"
    /\ \E u \in Users, c \in CodeNames, d \in CodeNames :
          /\ CopiesIn(Row(u, c, "reserve"), distribution) = 1
          /\ CopiesIn(Row(u, d, "normal"), distribution) = 1
          /\ has_code(promocodes, c)
          /\ promo_of(promocodes, c).used < promo_of(promocodes, c).total_uses

\* two codes of 5 uses each, nothing used, reserve 2, users 1, 2, 3 on
\* positions 1, 2, 3, and the plan of that state shown
ExampleShown ==
    /\ last.op = "plan"
    /\ promocodes = <<[code |-> "A", total_uses |-> 5, used |-> 0],
                      [code |-> "B", total_uses |-> 5, used |-> 0]>>
    /\ get_reserve = 2
    /\ weekly_users[now] = <<1, 2, 3>>

PlanLens(plan) == [i \in DOMAIN plan |-> Len(plan[i][2])]

\* C19 as stated: in the example the three ranks are given 3, 3 and 2 units.
C19_ExampleThreeThreeTwo ==
    ExampleShown => PlanLens(last.plan) = <<3, 3, 2>>

\* C19 amended: in the example 8 units are distributable and the ranks are
\* entitled to 3, 3 and 2 units, but each is given 2, one of either code; and
\* whatever the two budgets and the reserve, three distinct users on the three
\* positions are each given distinct codes, so 2 units at most.
C19_ExampleTwoEach ==
    /\ ExampleShown
        => /\ distributable_of(promocodes, get_reserve) = 8
           /\ entitlements(weekly_users[now], 8) = <<3, 3, 2>>
           /\ last.plan = << <<1, <<"A", "B">> >>, <<2, <<"B", "A">> >>,
                             <<3, <<"A", "B">> >> >>
    /\ (last.op = "plan" /\ Cardinality(Range(weekly_users[now])) = 3)
        => \A i \in DOMAIN last.plan :
              /\ Cardinality(Range(last.plan[i][2])) = Len(last.plan[i][2])
              /\ Len(last.plan[i][2]) <= 2

\* the plan of the example was shown and holds 6 units
C19_Witness == ExampleShown /\ PlanUnits(last.plan) = 6

C21_OneSlotPerParticipant ==
    \A w \in DOMAIN weekly_users : \A i, j \in DOMAIN weekly_users[w] :
        (i # j /\ weekly_users[w][i] # NULL) => weekly_users[w][i] # weekly_users[w][j]

\* C22: a reminder ping for a week is sent only while that week is neither
\* confirmed (the flag is not "1") nor executed (the marker is not that week).
C22_NoPingOnceConfirmedOrExecuted ==
    (last.op = "reminder" /\ last.outcome = "ping")
        => /\ settings.weekly_confirmed # "1"
           /\ settings.last_distribution_date # last.week

UsedCounts(promos) == [i \in DOMAIN promos |-> promos[i].used]

\* C23: when the notification a weekly job or a manual distribution waited for
\* has failed, the segment that follows issues to the remaining participants
\* exactly as the loop does from the tables as they are, and sets the marker when
\* the loop ends; and after a failed notification of either of them or of
\* /givepromo no ledger row is gone and no used count is lower.
C23_FailedNotificationHarmless ==
    /\ [][ (job.pc = "notify" /\ last'.op = "tick_resume" /\ ~last'.sent)
            => LET r == weekly_loop(job.todo, job.rem_map, distribution, promocodes)
               IN /\ distribution' = r.distribution
                  /\ promocodes' = r.promocodes
                  /\ ~r.awaiting => settings'.last_distribution_date = job.week ]_vars
    /\ [][ (manual.pc = "notify" /\ last'.op = "manual_resume" /\ ~last'.sent)
            => LET r == manual_loop(manual.todo, manual.rem_map, distribution, promocodes)
               IN /\ distribution' = r.distribution
                  /\ promocodes' = r.promocodes
                  /\ ~r.awaiting => settings'.last_distribution_date = get_week_start ]_vars
    /\ [][ ~last'.sent
            => /\ distribution \sqsubseteq distribution'
               /\ BagCardinality(distribution') >= BagCardinality(distribution)
               /\ \A i \in DOMAIN promocodes :
                     UsedCounts(promocodes')[i] >= UsedCounts(promocodes)[i]
               /\ last'.op = "givepromo"
                     => BagCardinality(distribution') > BagCardinality(distribution) ]_vars

\* the notification to the first participant of the weekly job failed and the
\* job went on to issue to the next one
C23_Witness ==
    /\ last.op = "tick_resume"
    /\ ~last.sent
    /\ last.outcome = "await"
    /\ \E e \in BagToSet(distribution) : e.user_id = 2 /\ e.source = "normal"

\* the positions of a roster that are bound to a participant
Bound(ordered) == {i \in DOMAIN ordered : ordered[i] # NULL}

\* C24: the allocation is empty whenever the remaining budget minus the reserve
\* is zero or less and whenever no position of the week is bound, and no
\* participant of an allocation has an empty list.
C24_EmptyWhenNothingToGive ==
    last.op = "plan"
        => /\ total_available(promocodes) - get_reserve <= 0 => last.plan = <<>>
           /\ Bound(weekly_users[now]) = {} => last.plan = <<>>
           /\ \A i \in DOMAIN last.plan : last.plan[i][2] # <<>>

\* the plan was computed with positions bound and a remaining budget equal to
\* the reserve
C24_Witness ==
    /\ last.op = "plan"
    /\ Bound(weekly_users[now]) # {}
    /\ get_reserve > 0
    /\ total_available(promocodes) = get_reserve
    /\ last.plan = <<>>

\* C25: the reserve is never negative; a /givepromo from the reserve that issued
\* k codes leaves max(0, reserve - k); /addpromo never lowers it; and no other
\* handler (a free /givepromo, an execution, a plan view, a confirmation, an
\* error report) changes it.
C25_ReserveNonNegative ==
    /\ [](get_reserve >= 0)
    /\ [][ LET k == BagCardinality(distribution') - BagCardinality(distribution)
           IN IF last'.op = "givepromo" /\ last'.outcome = "reserve"
              THEN settings'.reserve = Max(0, settings.reserve - k)
              ELSE IF last'.op = "addpromo"
              THEN settings'.reserve >= settings.reserve
              ELSE settings'.reserve = settings.reserve ]_vars

\* a /givepromo from the reserve has run, two codes have left through that
\* channel and the reserve is 0
C25_Witness ==
    /\ last.op = "givepromo"
    /\ last.outcome = "reserve"
    /\ get_reserve = 0
    /\ rows_of_source(distribution, "reserve") = 2

\* the budget the quantity passes of the plan view started from
Distributable == total_available(promocodes) - get_reserve

\* the bound positions of a roster before position i
BoundBefore(ordered, i) == Cardinality({j \in Bound(ordered) : j < i})

\* no position is given less than its cap unless every later one is given nothing
CapOrNothingLater(ordered, given) ==
    \A i \in Bound(ordered) :
        given[i] < (IF i <= TopSlots THEN TopQuota ELSE RestQuota)
            => \A j \in DOMAIN ordered : j > i => given[j] = 0

\* C26 as stated: in the quota pass the first 15 bound positions, counted among
\* the bound positions whatever their numbers, are given min(3, what is left) and
\* every later bound position min(1, what is left), in order.
C26_QuotaByOccupiedCount ==
    (last.op = "plan" /\ Distributable > 0)
        => LET ordered == weekly_users[now]
           IN quota_pass(ordered, Distributable).allocated =
                [i \in DOMAIN ordered |->
                    IF ordered[i] = NULL THEN 0
                    ELSE LET b == BoundBefore(ordered, i)
                         IN IF b < TopSlots
                            THEN Min(TopQuota, Max(0, Distributable - TopQuota * b))
                            ELSE Min(RestQuota,
                                     Max(0, Distributable - TopQuota * TopSlots
                                                - RestQuota * (b - TopSlots)))]

\* C26 amended: in the quota pass the bound positions among positions 1..15 are
\* given min(3, what is left) and the bound positions after position 15
\* min(1, what is left), in order; a position is given less than its cap only
\* if every later position is given nothing.
C26_QuotaByPosition ==
    (last.op = "plan" /\ Distributable > 0)
        => LET ordered == weekly_users[now]
               top == Cardinality({j \in Bound(ordered) : j <= TopSlots})
               given == quota_pass(ordered, Distributable).allocated
           IN /\ given =
                   [i \in DOMAIN ordered |->
                       IF ordered[i] = NULL THEN 0
                       ELSE IF i <= TopSlots
                       THEN Min(TopQuota,
                                Max(0, Distributable - TopQuota * BoundBefore(ordered, i)))
                       ELSE Min(RestQuota,
                                Max(0, Distributable - TopQuota * top
                                         - RestQuota * (BoundBefore(ordered, i) - top)))]
              /\ CapOrNothingLater(ordered, given)

\* twenty bound positions and a budget that fills every quota: 3 for each of
\* positions 1..15 and 1 for each of positions 16..20
C26_Witness ==
    /\ last.op = "plan"
    /\ Bound(weekly_users[now]) = 1..QuotaMaxLen
    /\ quota_pass(weekly_users[now], Distributable).allocated
          = [i \in 1..QuotaMaxLen |-> IF i <= TopSlots THEN TopQuota ELSE RestQuota]

\* C27: what the quota pass leaves is handed out one unit at a time, round-robin
\* in order over the bound positions after position 15, and over all bound
\* positions when there is none after position 15: after s surplus units over e
\* eligible positions, each has s \div e more, and the first s % e one more still.
C27_SpilloverRoundRobin ==
    (last.op = "plan" /\ Distributable > 0)
        => LET ordered == weekly_users[now]
               q == quota_pass(ordered, Distributable)
               rest == {i \in Bound(ordered) : i > TopSlots}
               elig == IF rest # {} THEN rest ELSE Bound(ordered)
               e == Cardinality(elig)
               place(i) == Cardinality({j \in elig : j < i})
           IN entitlements(ordered, Distributable) =
                [i \in DOMAIN ordered |->
                    IF i \in elig
                    THEN q.allocated[i] + (q.distributable \div e)
                           + (IF place(i) < q.distributable % e THEN 1 ELSE 0)
                    ELSE q.allocated[i]]

\* no position is bound after position 15, and the spillover raised a position
\* that already had its 3 units above 3
C27_Witness ==
    /\ last.op = "plan"
    /\ Distributable > 0
    /\ \A i \in Bound(weekly_users[now]) : i <= TopSlots
    /\ \E i \in Bound(weekly_users[now]) :
          /\ quota_pass(weekly_users[now], Distributable).allocated[i] = TopQuota
          /\ entitlements(weekly_users[now], Distributable)[i] > TopQuota

\* C28: the quota and spillover passes hand out exactly the distributable budget
\* when a position is bound and nothing when none is; never more than the
\* budget; and nothing to an unbound position.
C28_QuantityConserved ==
    (last.op = "plan" /\ Distributable > 0)
        => LET ordered == weekly_users[now]
               given == entitlements(ordered, Distributable)
           IN /\ SeqSum(given) = IF Bound(ordered) # {} THEN Distributable ELSE 0
              /\ SeqSum(given) <= Distributable
              /\ \A i \in DOMAIN ordered : given[i] >= 0
              /\ \A i \in DOMAIN ordered : ordered[i] = NULL => given[i] = 0

\* a roster with bound and unbound positions and a budget above the quotas of
\* its bound positions: the spillover handed out the rest
C28_Witness ==
    /\ last.op = "plan"
    /\ Bound(weekly_users[now]) # {}
    /\ Bound(weekly_users[now]) # DOMAIN weekly_users[now]
    /\ quota_pass(weekly_users[now], Distributable).distributable > 0
    /\ SeqSum(entitlements(weekly_users[now], Distributable)) = Distributable

\* the codes a plan holds for a participant
CodesOf(plan, tg_id) ==
    UNION {Range(plan[k][2]) : k \in {j \in DOMAIN plan : plan[j][1] = tg_id}}

\* the codes the ledger holds for a participant
HeldBy(dist, tg_id) == {e.code : e \in {r \in BagToSet(dist) : r.user_id = tg_id}}

\* the first index, scanning cyclically from the cursor, of a code with uses left
\* in this pass that is neither taken by the participant in this pass nor held
\* by the participant in the ledger; -1 when there is none
RECURSIVE StatedPick(_, _, _, _, _)
StatedPick(promo_iter, cursor, offset, taken, held) ==
    IF offset >= Len(promo_iter) THEN -1
    ELSE LET idx == (cursor + offset) % Len(promo_iter)
             cand == promo_iter[idx + 1]
         IN IF cand.remaining > 0 /\ cand.code \notin taken /\ cand.code \notin held
            THEN idx
            ELSE StatedPick(promo_iter, cursor, offset + 1, taken, held)

\* the units of one position: a unit without an eligible code ends them
RECURSIVE StatedUnits(_, _, _, _, _, _)
StatedUnits(cnt, promo_iter, cursor, given, taken, held) ==
    LET idx == IF cnt <= 0 THEN -1
               ELSE StatedPick(promo_iter, cursor, 0, taken \cup Range(given), held)
    IN IF idx < 0
       THEN [promo_iter |-> promo_iter, cursor |-> cursor, given |-> given]
       ELSE StatedUnits(cnt - 1, [promo_iter EXCEPT ![idx + 1].remaining = @ - 1], idx,
                        Append(given, promo_iter[idx + 1].code), taken, held)

\* the positions in order, the cursor carried from one to the next
RECURSIVE StatedPlan(_, _, _, _, _, _, _)
StatedPlan(pos, allocated, ordered, promo_iter, cursor, plan, dist) ==
    IF pos > Len(ordered) THEN plan
    ELSE IF ordered[pos] = NULL \/ allocated[pos] <= 0
    THEN StatedPlan(pos + 1, allocated, ordered, promo_iter, cursor, plan, dist)
    ELSE LET r == StatedUnits(allocated[pos], promo_iter, cursor, <<>>,
                              CodesOf(plan, ordered[pos]), HeldBy(dist, ordered[pos]))
         IN StatedPlan(pos + 1, allocated, ordered, r.promo_iter, r.cursor,
                       IF r.given = <<>> THEN plan
                       ELSE IF \E k \in DOMAIN plan : plan[k][1] = ordered[pos]
                       THEN [k \in DOMAIN plan |->
                               IF plan[k][1] = ordered[pos]
                               THEN <<plan[k][1], plan[k][2] \o r.given>> ELSE plan[k]]
                       ELSE Append(plan, <<ordered[pos], r.given>>),
                       dist)

\* C29: every entitled unit gets the first code, scanning cyclically in creation
\* order from the position of the code picked last (carried across participants),
\* that has uses left in this pass, has not been selected for this participant in
\* this pass and is not in the ledger for this participant; without such a code
\* the participant gets no further unit and planning goes on with the next.
C29_SelectionAsStated ==
    (last.op = "plan" /\ Distributable > 0 /\ total_available(promocodes) > 0)
        => last.plan =
             StatedPlan(1, entitlements(weekly_users[now], Distributable), weekly_users[now],
                        promo_iter_of(promocodes), 0, <<>>, distribution)

\* the number of times a plan names a code
RECURSIVE Times(_, _)
Times(codes, c) ==
    IF codes = <<>> THEN 0
    ELSE (IF Head(codes) = c THEN 1 ELSE 0) + Times(Tail(codes), c)

PlanTimes(plan, c) == SeqSum([i \in DOMAIN plan |-> Times(plan[i][2], c)])

\* the uses a code has left in the table
Remaining(promos, c) ==
    SeqSum([i \in DOMAIN promos |->
              IF promos[i].code = c THEN promos[i].total_uses - promos[i].used ELSE 0])

\* C30: an allocation names no code more often than the code has uses left at
\* planning time, and every participant's list is no longer than the entitlement
\* of a position bound to that participant.
C30_WithinSlotEntitlement ==
    last.op = "plan"
        => /\ \A c \in CodeNames : PlanTimes(last.plan, c) <= Max(0, Remaining(promocodes, c))
           /\ \A k \in DOMAIN last.plan : \E i \in DOMAIN weekly_users[now] :
                 /\ weekly_users[now][i] = last.plan[k][1]
                 /\ Len(last.plan[k][2])
                       <= entitlements(weekly_users[now], Distributable)[i]

\* C31: a segment of an execution adds no ledger row for a code that has no
\* uses left in the table when the segment runs.
C31_ExhaustedUnitSkipped ==
    [][ last'.op \in ExecutionOps
         => \A c \in CodeNames :
               rows_of_code(distribution', c) > rows_of_code(distribution, c)
                   => Remaining(promocodes, c) > 0 ]_vars

\* the (participant, code) pairs of an allocation
PlanPairs(plan) ==
    UNION { {<<plan[k][1], c>> : c \in Range(plan[k][2])} : k \in DOMAIN plan }

NewPairs == {<<e.user_id, e.code>> : e \in BagToSet(distribution' (-) distribution)}

\* the allocation from the roster, the pool, the reserve and the ledger as they are
FreshPlan ==
    compute_allocation_ordered(weekly_users[now], promocodes, settings.reserve, distribution)

\* C32: a tick that finds the flag set and the period not marked issues by the
\* allocation computed from the roster, the pool, the reserve and the ledger as
\* they are when it runs, whatever the confirmation request showed; the job
\* going on after a notification issues only what is left of that allocation.
C32_TickRecomputes ==
    /\ [][ (job.pc = "idle" /\ last'.op = "tick"
                /\ settings.weekly_confirmed = "1"
                /\ settings.last_distribution_date # get_week_start)
            => /\ NewPairs \subseteq PlanPairs(FreshPlan)
               /\ IF FreshPlan = <<>>
                  THEN UNCHANGED <<promocodes, distribution>>
                  ELSE LET r == weekly_loop(FreshPlan, rem_map_of(promocodes),
                                            distribution, promocodes)
                       IN /\ distribution' = r.distribution
                          /\ promocodes' = r.promocodes
                          /\ r.awaiting => job'.todo = r.todo ]_vars
    /\ [][ last'.op = "tick_resume" => NewPairs \subseteq PlanPairs(job.todo) ]_vars

\* a tick has issued a code to a participant that the confirmation request,
\* which showed a non-empty allocation, did not show for that participant
C32_Witness ==
    /\ last.op = "tick" /\ last.outcome \in {"await", "done"}
    /\ last.shown # <<>>
    /\ \E e \in BagToSet(distribution) :
          e.source = "normal" /\ <<e.user_id, e.code>> \notin PlanPairs(last.shown)

\* C33: after a tick that returned because the flag was not set, no reminder
\* job of the week key the tick computed is scheduled.
C33_UnconfirmedTickClearsReminder ==
    (last.op = "tick" /\ last.outcome = "unconfirmed") => last.week \notin reminder

FlagOps == {"confirm", "error", "hint"}

\* C34 as stated: after the acknowledgement of a hint the flag is not set.
C34_HintLeavesFlagNotSet ==
    (last.op = "hint" /\ last.caller = "admin") => settings.weekly_confirmed # "1"

\* C34 amended: confirm, the error report and the acknowledgement of a hint
\* change no table, no execution and, of the settings, at most the flag: a
\* confirm by an administrator sets it, an error report by an administrator
\* clears it, and the acknowledgement of a hint leaves it as it was, set or not.
C34_FlagOnly ==
    /\ [][ last'.op \in FlagOps
            => /\ UNCHANGED <<promocodes, distribution, weekly_users, now, job, manual>>
               /\ settings'.reserve = settings.reserve
               /\ settings'.last_distribution_date = settings.last_distribution_date ]_vars
    /\ [][ (last'.op = "confirm" /\ last'.caller = "admin")
            => settings'.weekly_confirmed = "1" ]_vars
    /\ [][ (last'.op = "error" /\ last'.caller = "admin")
            => settings'.weekly_confirmed = "0" ]_vars
    /\ [][ last'.op = "hint" => settings' = settings ]_vars

\* a hint was acknowledged by an administrator while the flag was set, with
\* rows in the ledger and the period marked
C34_Witness ==
    /\ last.op = "hint" /\ last.caller = "admin"
    /\ settings.weekly_confirmed = "1"
    /\ settings.last_distribution_date = get_week_start
    /\ distribution # EmptyBag

\* C35: the week key a tick computes is the week key of the latest confirmation
\* request, and the roster the tick allocates over is the roster stored under
\* that request's key.
C35_SamePeriodKey ==
    (last.op = "tick" /\ last.asked # "")
        => /\ last.week = last.asked
           /\ \A w \in 1..MaxWeek : WeekKey(w) = last.asked => weekly_users[now] = weekly_users[w]

\* C36: the reserve is never larger than the uses the codes of the pool have left.
C36_ReserveWithinBudget ==
    get_reserve <= total_available(promocodes)

\* the request is one the claim names as refused: a wrong number of codes, a
\* repeated code, or a code that is unknown, has no uses left or is already in
\* the ledger for the participant
GiveInvalid(tg_id, qty, parts) ==
    \/ Len(parts) # qty
    \/ \E i, j \in DOMAIN parts : i # j /\ parts[i] = parts[j]
    \/ \E i \in DOMAIN parts :
          \/ \A k \in DOMAIN promocodes : promocodes[k].code # parts[i]
          \/ Remaining(promocodes, parts[i]) <= 0
          \/ rows_of_pair(distribution, tg_id, parts[i]) > 0

\* C37: a /givepromo answer that names a wrong number of codes, a repeated code
\* or a code that is unknown, exhausted or already held by the participant
\* changes no table and not the reserve; any other answer adds exactly one
\* ledger row per named code and raises the used count of each named code by 1.
\* Every run of the handler is the handler applied to one such answer.
C37_GiveAllOrNothing ==
    /\ [](\A tg_id \in Users, give_type \in GiveTypes, qty \in GiveQtys, parts \in GiveParts :
            LET t == GiveAlone(tg_id, give_type, qty, parts)
            IN IF GiveInvalid(tg_id, qty, parts)
               THEN t = Tables
               ELSE /\ t.distribution = distribution (+)
                          SetToBag({Row(tg_id, c, give_type) : c \in Range(parts)})
                    /\ BagCardinality(t.distribution)
                          = BagCardinality(distribution) + Len(parts)
                    /\ DOMAIN t.promocodes = DOMAIN promocodes
                    /\ \A k \in DOMAIN promocodes :
                          t.promocodes[k] =
                             [promocodes[k] EXCEPT !.used =
                                 @ + (IF promocodes[k].code \in Range(parts) THEN 1 ELSE 0)])
    /\ [][ last'.op = "givepromo"
            => \E tg_id \in Users, give_type \in GiveTypes, qty \in GiveQtys,
                  parts \in GiveParts :
                  /\ distribution' = GiveAlone(tg_id, give_type, qty, parts).distribution
                  /\ promocodes' = GiveAlone(tg_id, give_type, qty, parts).promocodes
                  /\ settings' = GiveAlone(tg_id, give_type, qty, parts).settings ]_vars

\* an answer was refused in a state where, of the two codes A and B, the
\* participant could be given A but already holds B
C37_Witness ==
    /\ last.op = "givepromo" /\ last.outcome = "refused"
    /\ Remaining(promocodes, "A") > 0 /\ rows_of_pair(distribution, 1, "A") = 0
    /\ Remaining(promocodes, "B") > 0 /\ rows_of_pair(distribution, 1, "B") > 0

\* C38: a manual distribution that has gone through its allocation leaves the
\* marker equal to the week key; while the week lasts no handler moves the
\* marker off that key; and a tick that finds the marker equal to the week key
\* adds no row and uses no code, whether the flag is set or not.
C38_NoTickAfterManual ==
    /\ [][ (last'.op \in ManualOps /\ last'.outcome = "done")
            => settings'.last_distribution_date = get_week_start' ]_vars
    /\ [][ (settings.last_distribution_date = get_week_start /\ now' = now)
            => settings'.last_distribution_date = get_week_start ]_vars
    /\ [][ (job.pc = "idle" /\ last'.op = "tick"
                /\ settings.last_distribution_date = get_week_start)
            => UNCHANGED <<promocodes, distribution, job>> ]_vars

\* a tick returned at the marker check with the flag set, after a manual
\* distribution had issued and no tick had
C38_Witness ==
    /\ last.op = "tick" /\ last.outcome = "already"
    /\ settings.weekly_confirmed = "1"
    /\ rows_of_source(distribution, "manual") > 0
    /\ rows_of_source(distribution, "normal") = 0

C40_CodesKept ==
    /\ [](\A i, j \in DOMAIN promocodes : promocodes[i].code = promocodes[j].code => i = j)
    /\ [][ last'.op = "addpromo"
            => \A k \in DOMAIN promocodes :
                  k \in DOMAIN promocodes' /\ promocodes'[k] = promocodes[k] ]_vars
    /\ [][ \A k \in DOMAIN promocodes :
              /\ k \in DOMAIN promocodes'
              /\ promocodes'[k].code = promocodes[k].code
              /\ promocodes'[k].total_uses = promocodes[k].total_uses
              /\ promocodes'[k].used >= promocodes[k].used ]_vars

\* /addpromo has run on a table that already held its codes, one of them used
C40_Witness ==
    /\ last.op = "addpromo"
    /\ Len(promocodes) = Cardinality(CodeNames)
    /\ \E k \in DOMAIN promocodes : promocodes[k].used > 0

====
